---- MODULE Spec2Model ----
(***************************************************************************)
(* Model of the two CI utilities of the course-notebook repository:        *)
(*   scripts/run_notebooks.py  (the Batch Rebuilder)                        *)
(*   scripts/parse_commit.py   (the Change Detector)                        *)
(* Strings are tuples of one-character strings, so that sorted(),          *)
(* str.strip() and str.endswith() are computed character by character.     *)
(***************************************************************************)
EXTENDS Integers, Sequences, FiniteSets, TLC

\* ------------------------------------------------------------------ bounds
MaxArgs == 2
MaxRuns == 2
MaxLines == 4

\* ----------------------------------------------------------------- strings
Code ==
  (" " :> 32) @@ ("\t" :> 9) @@ ("\n" :> 10) @@ ("." :> 46) @@ ("1" :> 49) @@
  ("2" :> 50) @@ ("a" :> 97) @@ ("b" :> 98) @@ ("d" :> 100) @@ ("e" :> 101) @@
  ("f" :> 102) @@ ("g" :> 103) @@ ("i" :> 105) @@ ("l" :> 108) @@
  ("m" :> 109) @@ ("n" :> 110) @@ ("o" :> 111) @@ ("p" :> 112) @@
  ("r" :> 114) @@ ("s" :> 115) @@ ("y" :> 121)

A_ipynb == <<"a", ".", "i", "p", "y", "n", "b">>
B_ipynb == <<"b", ".", "i", "p", "y", "n", "b">>
ScriptName == <<"r">>
NoNotebooksMsg ==
  <<"N", "o", " ", "n", "o", "t", "e", "b", "o", "o", "k", "s", " ", "t",
  "o", " ", "r", "e", "b", "u", "i", "l", "d", ".">>

Paths == {A_ipynb, B_ipynb}

RECURSIVE StrLess(_, _)
StrLess(s, t) ==
  IF t = <<>> THEN FALSE
  ELSE IF s = <<>> THEN TRUE
  ELSE IF Code[Head(s)] < Code[Head(t)] THEN TRUE
  ELSE IF Code[Head(s)] > Code[Head(t)] THEN FALSE
  ELSE StrLess(Tail(s), Tail(t))

RECURSIVE Insert(_, _)
Insert(x, seq) ==
  IF seq = <<>> THEN <<x>>
  ELSE IF StrLess(x, Head(seq)) THEN <<x>> \o seq
  ELSE <<Head(seq)>> \o Insert(x, Tail(seq))

\* sorted(): a stable ascending sort
sortedBad(seq) == seq
RECURSIVE sorted(_)
sorted(seq) ==
  IF seq = <<>> THEN <<>> ELSE Insert(seq[Len(seq)], sorted(SubSeq(seq, 1, Len(seq) - 1)))

Range(seq) == {seq[i] : i \in 1..Len(seq)}
Count(x, seq) == Cardinality({i \in 1..Len(seq) : seq[i] = x})
SeqsUpTo(S, n) == UNION {[1..k -> S] : k \in 0..n}
IsPrefix(s, t) == Len(s) <= Len(t) /\ SubSeq(t, 1, Len(s)) = s
AbsentFile == [exists |-> FALSE, lines |-> <<>>]

\* ------------------------------------------------- run_notebooks.py: state
VARIABLES
  sys_argv,               \* sys.argv: script name followed by the paths
  pc,                     \* position of the script
  notebooks_to_rebuild,
  alarm,                  \* "unarmed" | "armed" | "fired" (SIGALRM)
  problem_notebooks,
  failed_count,
  total_notebooks_built,
  total_num,              \* enumerate() index of the loop (0-based)
  successful_notebooks,
  wr,                     \* number of lines written by the current log loop
  tmp_exists,             \* the directory ./tmp exists
  nb_errors_txt,          \* the file nb_errors.txt
  ipynb_files_built_txt,  \* the file ipynb_files_built.txt
  exit_status,            \* -1 while running, else the process exit status
  exit_message,           \* message printed by sys.exit
  run,                    \* number of the current invocation
  events,                 \* history: rebuild_notebook calls begun / ended
  outcomes,               \* history: how each loop iteration ended
  arm_count,              \* history: calls of signal.alarm in this run
  at_start                \* history: files and tmp when the run began

\* ------------------------------------------------ parse_commit.py: state
VARIABLES
  changed_files_txt,      \* text of changed_files.txt
  content,
  changed_notebooks,
  changed_notebooks_txt,  \* the file changed_notebooks.txt
  dpc                     \* position of the script

\* ------------------------------------ rebuild_notebook on the disk: state
VARIABLES
  notebook_path,          \* the argument of rebuild_notebook
  spc,                    \* position inside the call and the cleanup after it
  fs,                     \* the notebook files on disk, by location
  tmp_dir,                \* the directory ./tmp exists
  ntbk_tmp_path,          \* paths['path_save_tmp_file']
  ntbk_json,              \* the notebook read by nf.read
  original                \* history: the input notebook before the call

rvars == <<sys_argv, pc, notebooks_to_rebuild, alarm, problem_notebooks,
           failed_count, total_notebooks_built, total_num,
           successful_notebooks, wr, tmp_exists, nb_errors_txt,
           ipynb_files_built_txt, exit_status, exit_message, run, events,
           outcomes, arm_count, at_start>>
dvars == <<changed_files_txt, content, changed_notebooks,
           changed_notebooks_txt, dpc>>
svars == <<notebook_path, spc, fs, tmp_dir, ntbk_tmp_path, ntbk_json,
           original>>
vars == <<rvars, dvars, svars>>

Terminal == {"done", "crashed", "exited"}
InTry == {"gen_paths", "execute", "built"}

\* the current loop item
notebook == notebooks_to_rebuild[total_num + 1]

Snapshot(tmp, errs, built) == [tmp |-> tmp, errors |-> errs, built |-> built]

\* state of a freshly started interpreter given the command line and the disk
ProcessStart(args, tmp, errs, built, r) ==
  /\ sys_argv = <<ScriptName>> \o args
  /\ pc = "start"
  /\ notebooks_to_rebuild = <<>>
  /\ alarm = "unarmed"
  /\ problem_notebooks = <<>>
  /\ failed_count = 0
  /\ total_notebooks_built = 0
  /\ total_num = 0
  /\ successful_notebooks = <<>>
  /\ wr = 0
  /\ tmp_exists = tmp
  /\ nb_errors_txt = errs
  /\ ipynb_files_built_txt = built
  /\ exit_status = -1
  /\ exit_message = <<>>
  /\ run = r
  /\ events = <<>>
  /\ outcomes = <<>>
  /\ arm_count = 0
  /\ at_start = Snapshot(tmp, errs, built)

DetectIdle ==
  /\ changed_files_txt = <<>>
  /\ content = <<>>
  /\ changed_notebooks = <<>>
  /\ changed_notebooks_txt = AbsentFile
  /\ dpc = "idle"

NoNotebook ==
  [display_name |-> "", language |-> "", version |-> "", name |-> "",
   executed |-> FALSE]
NoFile == [exists |-> FALSE, nb |-> NoNotebook]

StageIdle ==
  /\ notebook_path = <<>>
  /\ spc = "idle"
  /\ fs = <<>>
  /\ tmp_dir = FALSE
  /\ ntbk_tmp_path = <<>>
  /\ ntbk_json = NoNotebook
  /\ original = NoFile

Init ==
  /\ \E args \in SeqsUpTo(Paths, MaxArgs) :
       ProcessStart(args, FALSE, AbsentFile, AbsentFile, 1)
  /\ DetectIdle
  /\ StageIdle

\* ---------------------------------------------- run_notebooks.py: actions
\* `if len(sys.argv) > 1`
HasNotebooksBad(argv) == Len(argv) > 0
HasNotebooks(argv) == Len(argv) > 1

\* lines 137-153
CheckArgs ==
  /\ pc = "start"
  /\ IF HasNotebooks(sys_argv)
       THEN /\ notebooks_to_rebuild' = sorted(Tail(sys_argv))
            /\ pc' = "arm"
            /\ UNCHANGED <<exit_status, exit_message>>
       ELSE /\ pc' = "exited"
            /\ exit_status' = 1
            /\ exit_message' = NoNotebooksMsg
            /\ UNCHANGED notebooks_to_rebuild
  /\ UNCHANGED <<sys_argv, alarm, problem_notebooks, failed_count,
                 total_notebooks_built, total_num, successful_notebooks, wr,
                 tmp_exists, nb_errors_txt, ipynb_files_built_txt, run,
                 events, outcomes, arm_count, at_start>>
  /\ UNCHANGED <<dvars, svars>>

\* lines 159-174: register the handler, signal.alarm(570), reset the counters
ArmAlarm ==
  /\ pc = "arm"
  /\ alarm' = "armed"
  /\ arm_count' = arm_count + 1
  /\ problem_notebooks' = <<>>
  /\ failed_count' = 0
  /\ total_notebooks_built' = 0
  /\ total_num' = 0
  /\ pc' = "loop"
  /\ UNCHANGED <<sys_argv, notebooks_to_rebuild, successful_notebooks, wr,
                 tmp_exists, nb_errors_txt, ipynb_files_built_txt,
                 exit_status, exit_message, run, events, outcomes, at_start>>
  /\ UNCHANGED <<dvars, svars>>

\* lines 175-180: loop header, print, enter the try block and the call
LoopNext ==
  /\ pc = "loop"
  /\ IF total_num < Len(notebooks_to_rebuild)
       THEN /\ pc' = "gen_paths"
            /\ events' = Append(events, <<"begin", notebook>>)
       ELSE /\ pc' = "summary"
            /\ UNCHANGED events
  /\ UNCHANGED <<sys_argv, notebooks_to_rebuild, alarm, problem_notebooks,
                 failed_count, total_notebooks_built, total_num,
                 successful_notebooks, wr, tmp_exists, nb_errors_txt,
                 ipynb_files_built_txt, exit_status, exit_message, run,
                 outcomes, arm_count, at_start>>
  /\ UNCHANGED <<dvars, svars>>

\* lines 50-66: generate_paths creates ./tmp when it is missing
generate_paths ==
  /\ pc = "gen_paths"
  /\ tmp_exists' = TRUE
  /\ pc' = "execute"
  /\ UNCHANGED <<sys_argv, notebooks_to_rebuild, alarm, problem_notebooks,
                 failed_count, total_notebooks_built, total_num,
                 successful_notebooks, wr, nb_errors_txt,
                 ipynb_files_built_txt, exit_status, exit_message, run,
                 events, outcomes, arm_count, at_start>>
  /\ UNCHANGED <<dvars, svars>>

\* lines 120-133: nf.read, normalize_kernel_name and pm.execute_notebook
\* either all return or one of them raises an Exception
rebuild_notebook ==
  /\ pc = "execute"
  /\ \E ok \in BOOLEAN :
       /\ pc' = IF ok THEN "built" ELSE "except"
       /\ events' = Append(events, <<IF ok THEN "return" ELSE "raise", notebook>>)
  /\ UNCHANGED <<sys_argv, notebooks_to_rebuild, alarm, problem_notebooks,
                 failed_count, total_notebooks_built, total_num,
                 successful_notebooks, wr, tmp_exists, nb_errors_txt,
                 ipynb_files_built_txt, exit_status, exit_message, run,
                 outcomes, arm_count, at_start>>
  /\ UNCHANGED <<dvars, svars>>

\* lines 181-182: rest of the try block
Built ==
  /\ pc = "built"
  /\ total_notebooks_built' = total_notebooks_built + 1
  /\ outcomes' = Append(outcomes, "ok")
  /\ total_num' = total_num + 1
  /\ pc' = "loop"
  /\ UNCHANGED <<sys_argv, notebooks_to_rebuild, alarm, problem_notebooks,
                 failed_count, successful_notebooks, wr, tmp_exists,
                 nb_errors_txt, ipynb_files_built_txt, exit_status,
                 exit_message, run, events, arm_count, at_start>>
  /\ UNCHANGED <<dvars, svars>>

\* line 185
RecordProblem(probs, nb) == Append(probs, nb)

\* where the script goes after the except block (`continue`)
AfterExceptBad == "summary"
AfterExcept == "loop"

\* lines 183-187: the except block
Except ==
  /\ pc = "except"
  /\ problem_notebooks' = RecordProblem(problem_notebooks, notebook)
  /\ failed_count' = failed_count + 1
  /\ outcomes' = Append(outcomes, "failed")
  /\ total_num' = total_num + 1
  /\ pc' = AfterExcept
  /\ UNCHANGED <<sys_argv, notebooks_to_rebuild, alarm,
                 total_notebooks_built, successful_notebooks, wr, tmp_exists,
                 nb_errors_txt, ipynb_files_built_txt, exit_status,
                 exit_message, run, events, arm_count, at_start>>
  /\ UNCHANGED <<dvars, svars>>

\* lines 189-191: the printed summary
Summary ==
  /\ pc = "summary"
  /\ pc' = "cleanup"
  /\ UNCHANGED <<sys_argv, notebooks_to_rebuild, alarm, problem_notebooks,
                 failed_count, total_notebooks_built, total_num,
                 successful_notebooks, wr, tmp_exists, nb_errors_txt,
                 ipynb_files_built_txt, exit_status, exit_message, run,
                 events, outcomes, arm_count, at_start>>
  /\ UNCHANGED <<dvars, svars>>

\* lines 193-205: remove ./tmp if it exists, print the problem notebooks
Cleanup ==
  /\ pc = "cleanup"
  /\ tmp_exists' = FALSE
  /\ pc' = "open_errors"
  /\ UNCHANGED <<sys_argv, notebooks_to_rebuild, alarm, problem_notebooks,
                 failed_count, total_notebooks_built, total_num,
                 successful_notebooks, wr, nb_errors_txt,
                 ipynb_files_built_txt, exit_status, exit_message, run,
                 events, outcomes, arm_count, at_start>>
  /\ UNCHANGED <<dvars, svars>>

\* open(name, 'a') and open(name, 'w')
OpenAppend(f) == [exists |-> TRUE, lines |-> f.lines]
OpenWrite(f) == [exists |-> TRUE, lines |-> <<>>]
\* log.write('{}\n'.format(nb))
WriteLine(f, nb) == [f EXCEPT !.lines = Append(@, nb)]

\* line 208
OpenErrorsLogBad(f) == OpenWrite(f)
OpenErrorsLog(f) == OpenAppend(f)

\* line 216
OpenBuiltLogBad(f) == OpenAppend(f)
OpenBuiltLog(f) == OpenWrite(f)

\* line 214
SuccessfulNotebooksBad(nbs, probs) == nbs
SuccessfulNotebooks(nbs, probs) ==
  SelectSeq(nbs, LAMBDA x : x \notin Range(probs))

\* line 208
OpenErrors ==
  /\ pc = "open_errors"
  /\ nb_errors_txt' = OpenErrorsLog(nb_errors_txt)
  /\ wr' = 0
  /\ pc' = "write_errors"
  /\ UNCHANGED <<sys_argv, notebooks_to_rebuild, alarm, problem_notebooks,
                 failed_count, total_notebooks_built, total_num,
                 successful_notebooks, tmp_exists, ipynb_files_built_txt,
                 exit_status, exit_message, run, events, outcomes,
                 arm_count, at_start>>
  /\ UNCHANGED <<dvars, svars>>

\* lines 209-214: one pass of the loop over problem_notebooks; when it is
\* exhausted the file is closed and successful_notebooks is computed
WriteErrors ==
  /\ pc = "write_errors"
  /\ IF wr < Len(problem_notebooks)
       THEN /\ nb_errors_txt' = WriteLine(nb_errors_txt, problem_notebooks[wr + 1])
            /\ wr' = wr + 1
            /\ UNCHANGED <<pc, successful_notebooks>>
       ELSE /\ successful_notebooks' =
                 SuccessfulNotebooks(notebooks_to_rebuild, problem_notebooks)
            /\ pc' = "open_built"
            /\ UNCHANGED <<wr, nb_errors_txt>>
  /\ UNCHANGED <<sys_argv, notebooks_to_rebuild, alarm, problem_notebooks,
                 failed_count, total_notebooks_built, total_num, tmp_exists,
                 ipynb_files_built_txt, exit_status, exit_message, run,
                 events, outcomes, arm_count, at_start>>
  /\ UNCHANGED <<dvars, svars>>

\* line 216
OpenBuilt ==
  /\ pc = "open_built"
  /\ ipynb_files_built_txt' = OpenBuiltLog(ipynb_files_built_txt)
  /\ wr' = 0
  /\ pc' = "write_built"
  /\ UNCHANGED <<sys_argv, notebooks_to_rebuild, alarm, problem_notebooks,
                 failed_count, total_notebooks_built, total_num,
                 successful_notebooks, tmp_exists, nb_errors_txt,
                 exit_status, exit_message, run, events, outcomes,
                 arm_count, at_start>>
  /\ UNCHANGED <<dvars, svars>>

\* lines 217-219: one pass of the loop over successful_notebooks; when it is
\* exhausted the file is closed and the interpreter exits with status 0
WriteBuilt ==
  /\ pc = "write_built"
  /\ IF wr < Len(successful_notebooks)
       THEN /\ ipynb_files_built_txt' =
                 WriteLine(ipynb_files_built_txt, successful_notebooks[wr + 1])
            /\ wr' = wr + 1
            /\ UNCHANGED <<pc, exit_status>>
       ELSE /\ pc' = "done"
            /\ exit_status' = 0
            /\ UNCHANGED <<wr, ipynb_files_built_txt>>
  /\ UNCHANGED <<sys_argv, notebooks_to_rebuild, alarm, problem_notebooks,
                 failed_count, total_notebooks_built, total_num,
                 successful_notebooks, tmp_exists, nb_errors_txt,
                 exit_message, run, events, outcomes, arm_count, at_start>>
  /\ UNCHANGED <<dvars, svars>>

\* state of the alarm after it was delivered (signal.alarm is one-shot)
AlarmAfterFiringBad == "armed"
AlarmAfterFiring == "fired"

\* lines 159-160: SIGALRM is delivered and handler raises Exception at the
\* point the main thread has reached: inside the try block it is caught by
\* `except Exception` (line 183), anywhere else it is uncaught and the
\* interpreter prints the traceback and exits with status 1.  The 570 seconds
\* (line 166) elapse no earlier than during the first rebuild_notebook call.
handler ==
  /\ alarm = "armed"
  /\ pc \notin Terminal
  /\ events # <<>>
  /\ alarm' = AlarmAfterFiring
  /\ IF pc \in InTry
       THEN /\ pc' = "except"
            /\ events' = Append(events,
                 <<IF pc = "built" THEN "late_alarm" ELSE "alarm", notebook>>)
            /\ UNCHANGED exit_status
       ELSE /\ pc' = "crashed"
            /\ exit_status' = 1
            /\ UNCHANGED events
  /\ UNCHANGED <<sys_argv, notebooks_to_rebuild, problem_notebooks,
                 failed_count, total_notebooks_built, total_num,
                 successful_notebooks, wr, tmp_exists, nb_errors_txt,
                 ipynb_files_built_txt, exit_message, run, outcomes,
                 arm_count, at_start>>
  /\ UNCHANGED <<dvars, svars>>

\* the script is invoked again (next CI build) on the disk the last run left
NewRun ==
  /\ pc \in Terminal
  /\ run < MaxRuns
  /\ \E args \in SeqsUpTo(Paths, MaxArgs) : sys_argv' = <<ScriptName>> \o args
  /\ pc' = "start"
  /\ notebooks_to_rebuild' = <<>>
  /\ alarm' = "unarmed"
  /\ problem_notebooks' = <<>>
  /\ failed_count' = 0
  /\ total_notebooks_built' = 0
  /\ total_num' = 0
  /\ successful_notebooks' = <<>>
  /\ wr' = 0
  /\ exit_status' = -1
  /\ exit_message' = <<>>
  /\ run' = run + 1
  /\ events' = <<>>
  /\ outcomes' = <<>>
  /\ arm_count' = 0
  /\ at_start' = Snapshot(tmp_exists, nb_errors_txt, ipynb_files_built_txt)
  /\ UNCHANGED <<tmp_exists, nb_errors_txt, ipynb_files_built_txt>>
  /\ UNCHANGED <<dvars, svars>>

Next ==
  \/ CheckArgs
  \/ ArmAlarm
  \/ LoopNext
  \/ generate_paths
  \/ rebuild_notebook
  \/ Built
  \/ Except
  \/ Summary
  \/ Cleanup
  \/ OpenErrors
  \/ WriteErrors
  \/ OpenBuilt
  \/ WriteBuilt
  \/ handler
  \/ NewRun

Spec == Init /\ [][Next]_vars

\* ------------------------------------------------ parse_commit.py: strings
Whitespace == {" ", "\t", "\n", "\r", "\f"}
NotebookSuffix == <<".", "i", "p", "y", "n", "b">>

Readme_md == <<"r", "e", "a", "d", "m", "e", ".", "m", "d">>
Lesson1_ipynb == <<"l", "e", "s", "s", "o", "n", "1">> \o NotebookSuffix
Lesson2_ipynb == <<"l", "e", "s", "s", "o", "n", "2">> \o NotebookSuffix
Fig_png == <<"f", "i", "g", ".", "p", "n", "g">>
Padded_ipynb == <<" ">> \o A_ipynb \o <<"\t">>
Backup_md == A_ipynb \o <<".", "m", "d">>

\* bodies of the lines of changed_files.txt (without the line terminator)
LineBodies ==
  {Readme_md, Lesson1_ipynb, Fig_png, Lesson2_ipynb, Padded_ipynb, Backup_md,
   <<>>}

RECURSIVE Join(_, _)
\* the text of a file whose lines are bodies, the last one terminated or not
Join(bodies, final_newline) ==
  IF bodies = <<>> THEN <<>>
  ELSE IF Len(bodies) = 1
         THEN Head(bodies) \o (IF final_newline THEN <<"\n">> ELSE <<>>)
         ELSE Head(bodies) \o <<"\n">> \o Join(Tail(bodies), final_newline)

RECURSIVE SplitLines(_, _)
SplitLines(text, cur) ==
  IF text = <<>> THEN (IF cur = <<>> THEN <<>> ELSE <<cur>>)
  ELSE IF Head(text) = "\n"
         THEN <<Append(cur, "\n")>> \o SplitLines(Tail(text), <<>>)
         ELSE SplitLines(Tail(text), Append(cur, Head(text)))

\* f.readlines(): the lines of the text, each with its terminator
readlines(text) == SplitLines(text, <<>>)

RECURSIVE lstrip(_)
lstrip(s) ==
  IF s # <<>> /\ Head(s) \in Whitespace THEN lstrip(Tail(s)) ELSE s

RECURSIVE rstrip(_)
rstrip(s) ==
  IF s # <<>> /\ s[Len(s)] \in Whitespace
    THEN rstrip(SubSeq(s, 1, Len(s) - 1)) ELSE s

\* str.strip()
strip(s) == rstrip(lstrip(s))

\* str.endswith(suffix)
endswithBad(s, suffix) ==
  \E k \in 0..(Len(s) - Len(suffix)) : SubSeq(s, k + 1, k + Len(suffix)) = suffix
endswith(s, suffix) ==
  /\ Len(s) >= Len(suffix)
  /\ SubSeq(s, Len(s) - Len(suffix) + 1, Len(s)) = suffix

Map(F(_), seq) == [i \in 1..Len(seq) |-> F(seq[i])]

StaleOutput == [exists |-> TRUE, lines |-> <<A_ipynb>>]

RebuilderIdle ==
  ProcessStart(<<>>, FALSE, AbsentFile, AbsentFile, 1)

InitDetect ==
  /\ RebuilderIdle
  /\ StageIdle
  /\ \/ changed_files_txt = [exists |-> FALSE, text |-> <<>>]
     \/ \E bodies \in SeqsUpTo(LineBodies, MaxLines), nl \in BOOLEAN :
          changed_files_txt = [exists |-> TRUE, text |-> Join(bodies, nl)]
  /\ content = <<>>
  /\ changed_notebooks = <<>>
  /\ changed_notebooks_txt \in {AbsentFile, StaleOutput}
  /\ dpc = "read"

\* ----------------------------------------------- parse_commit.py: actions
\* lines 6-8: open() raises FileNotFoundError when the input is missing
ReadChangedFiles ==
  /\ dpc = "read"
  /\ IF changed_files_txt.exists
       THEN /\ content' = readlines(changed_files_txt.text)
            /\ dpc' = "strip"
       ELSE /\ dpc' = "crashed"
            /\ UNCHANGED content
  /\ UNCHANGED <<changed_files_txt, changed_notebooks, changed_notebooks_txt>>
  /\ UNCHANGED <<rvars, svars>>

\* line 9
StripLines ==
  /\ dpc = "strip"
  /\ content' = Map(strip, content)
  /\ dpc' = "filter"
  /\ UNCHANGED <<changed_files_txt, changed_notebooks, changed_notebooks_txt>>
  /\ UNCHANGED <<rvars, svars>>

\* lines 11-13
FilterNotebooks ==
  /\ dpc = "filter"
  /\ changed_notebooks' =
       SelectSeq(content, LAMBDA line : endswith(line, NotebookSuffix))
  /\ dpc' = "open_out"
  /\ UNCHANGED <<changed_files_txt, content, changed_notebooks_txt>>
  /\ UNCHANGED <<rvars, svars>>

\* line 15
OpenChangedNotebooks ==
  /\ dpc = "open_out"
  /\ changed_notebooks_txt' = OpenWrite(changed_notebooks_txt)
  /\ dpc' = "write_out"
  /\ UNCHANGED <<changed_files_txt, content, changed_notebooks>>
  /\ UNCHANGED <<rvars, svars>>

\* lines 16-18
WriteChangedNotebooks ==
  /\ dpc = "write_out"
  /\ changed_notebooks_txt' =
       IF Len(changed_notebooks) > 0
         THEN [changed_notebooks_txt EXCEPT !.lines = @ \o changed_notebooks]
         ELSE changed_notebooks_txt
  /\ dpc' = "done"
  /\ UNCHANGED <<changed_files_txt, content, changed_notebooks>>
  /\ UNCHANGED <<rvars, svars>>

NextDetect ==
  \/ ReadChangedFiles
  \/ StripLines
  \/ FilterNotebooks
  \/ OpenChangedNotebooks
  \/ WriteChangedNotebooks

SpecDetect == InitDetect /\ [][NextDetect]_vars

\* ------------------------------------------------------------ properties
args == Tail(sys_argv)
failed == problem_notebooks
succeeded == ipynb_files_built_txt.lines
Ascending(seq) ==
  \A i, j \in 1..Len(seq) : i < j => ~StrLess(seq[j], seq[i])
\* the paths whose rebuild_notebook call was begun, in the order of the calls
Begun ==
  LET b == SelectSeq(events, LAMBDA e : e[1] = "begin")
  IN  [i \in 1..Len(b) |-> b[i][2]]
\* the notebooks whose try block was interrupted by the alarm
Cancelled == SelectSeq(events, LAMBDA e : e[1] \in {"alarm", "late_alarm"})
\* the calls of rebuild_notebook: begin and end events without the late alarm
Calls == SelectSeq(events, LAMBDA e : e[1] # "late_alarm")

\* C1: when a run over a non-empty list of paths finishes, every path is in
\* exactly one of succeeded (the lines of the success log) and failed
\* (problem_notebooks): their union is the set of paths given and they are
\* disjoint.
C1_Partition ==
  (pc = "done" /\ Len(args) > 0) =>
     /\ Range(succeeded) \cup Range(failed) = Range(args)
     /\ Range(succeeded) \cap Range(failed) = {}

C1_Witness ==
  /\ pc = "done"
  /\ Len(args) = 2
  /\ failed # <<>>
  /\ succeeded # <<>>

OneAtATime ==
  \A k \in 1..Len(Calls) :
     /\ (k % 2 = 1) => Calls[k][1] = "begin"
     /\ (k % 2 = 0) => /\ Calls[k][1] \in {"return", "raise", "alarm"}
                       /\ Calls[k][2] = Calls[k - 1][2]

\* C3 as stated: notebooks are rebuilt one at a time in the order of the
\* command line, and the failed and succeeded lists keep that order.
C3_CommandLineOrder ==
  /\ OneAtATime
  /\ IsPrefix(Begun, args)

\* C3 amended: notebooks are rebuilt one at a time in ascending order of their
\* paths (the command line sorted): the calls begun are ascending, no path
\* still to come is smaller than the one begun last, no path is begun more
\* often than it was given, a finished run has begun every path given, and
\* the failed and succeeded lists are ascending.
C3_SortedOrder ==
  /\ OneAtATime
  /\ Ascending(Begun)
  /\ \A x \in Paths :
       /\ Count(x, Begun) <= Count(x, args)
       /\ (Begun # <<>> /\ Count(x, Begun) < Count(x, args)) =>
            ~StrLess(x, Begun[Len(Begun)])
       /\ pc = "done" => Count(x, Begun) = Count(x, args)
  /\ Ascending(failed)
  /\ pc = "done" => Ascending(succeeded)

C3_Witness ==
  /\ pc = "done"
  /\ args = <<B_ipynb, A_ipynb>>
  /\ Begun = <<A_ipynb, B_ipynb>>
  /\ failed = <<A_ipynb>>
  /\ succeeded = <<B_ipynb>>

\* C4: once a run with at least one input path has ended, ./tmp does not
\* exist, whatever failed and whenever the alarm fired.
C4_TmpRemoved ==
  (pc \in Terminal /\ Len(args) > 0) => ~tmp_exists

\* C5: a run with at least one input path always ends by completing the
\* script with exit status zero, whenever the alarm fires.
C5_ExitsZero ==
  (pc \in Terminal /\ Len(args) > 0) => (pc = "done" /\ exit_status = 0)

\* C6: the alarm is armed once per run, before the batch, and never again.
\* When it fires inside a try block the notebook of that iteration is
\* recorded as failed and the run goes on to finish the batch (it does not
\* crash); it cancels at most one notebook per run, and once it has fired
\* it stays fired, so later notebooks run without a timeout.
C6_SingleAlarm ==
  /\ arm_count <= 1
  /\ (pc \notin {"start", "arm", "exited"}) => arm_count = 1
  /\ alarm = "unarmed" <=> arm_count = 0
  /\ Len(Cancelled) <= 1
  /\ Cancelled # <<>> =>
       /\ alarm = "fired"
       /\ pc # "crashed"
       /\ pc = "except" \/ Cancelled[1][2] \in Range(failed)
       /\ pc = "done" => Len(outcomes) = Len(args)

C6_Witness ==
  /\ pc = "done"
  /\ Len(Cancelled) = 1
  /\ Cancelled[1] = <<"alarm", A_ipynb>>
  /\ failed = <<A_ipynb>>
  /\ succeeded = <<B_ipynb>>
  /\ events[Len(events)] = <<"return", B_ipynb>>

\* C7: with no notebook path the script stops at once: it exits with the
\* message 'No notebooks to rebuild.' and a non-zero status, having made no
\* rebuild_notebook call, not created ./tmp, not armed the alarm and not
\* created or changed nb_errors.txt or ipynb_files_built.txt.
C7_FailFast ==
  (Len(args) = 0 /\ pc # "start") =>
     /\ pc = "exited"
     /\ exit_status > 0
     /\ exit_message = NoNotebooksMsg
     /\ events = <<>>
     /\ outcomes = <<>>
     /\ tmp_exists = at_start.tmp
     /\ alarm = "unarmed"
     /\ arm_count = 0
     /\ nb_errors_txt = at_start.errors
     /\ ipynb_files_built_txt = at_start.built

C7_Witness ==
  /\ pc = "exited"
  /\ Len(args) = 0
  /\ run = 2
  /\ nb_errors_txt.lines # <<>>
  /\ ipynb_files_built_txt.lines # <<>>

\* C8: nb_errors.txt accumulates: when a run finishes, the file holds what it
\* held when the run began followed by the failed paths of the run in
\* processing order (nothing more when nothing failed), and no step of any
\* run removes or rewrites a line already in the file.
C8_ErrorsAccumulate ==
  /\ [](pc = "done" =>
          nb_errors_txt.lines = at_start.errors.lines \o failed)
  /\ [][IsPrefix(nb_errors_txt.lines, nb_errors_txt'.lines)]_vars

C8_Witness ==
  /\ pc = "done"
  /\ run = 2
  /\ at_start.errors.lines = <<A_ipynb, B_ipynb>>
  /\ nb_errors_txt.lines = <<A_ipynb, B_ipynb, B_ipynb>>

\* C9: ipynb_files_built.txt reflects only the latest run: when a run
\* finishes, whatever the file held before, its lines are exactly the paths
\* of this run that are not in the failed set, each as often as it was
\* given, and nothing else; it is empty when every notebook failed.
C9_BuiltIsLatestRun ==
  pc = "done" =>
     /\ Range(succeeded) = Range(args) \ Range(failed)
     /\ \A x \in Range(succeeded) : Count(x, succeeded) = Count(x, args)
     /\ Len(failed) = Len(args) => succeeded = <<>>

C9_Witness ==
  /\ pc = "done"
  /\ run = 2
  /\ at_start.built.lines = <<A_ipynb, B_ipynb>>
  /\ succeeded = <<B_ipynb, B_ipynb>>

\* the input lines of the Change Detector
InputLines == readlines(changed_files_txt.text)
\* s without its leading and trailing whitespace: the part of s from its
\* first to its last character that is not whitespace
Visible(s) == {k \in 1..Len(s) : s[k] \notin Whitespace}
Stripped(s) ==
  IF Visible(s) = {} THEN <<>>
  ELSE LET lo == CHOOSE k \in Visible(s) : \A j \in Visible(s) : k <= j
           hi == CHOOSE k \in Visible(s) : \A j \in Visible(s) : j <= k
       IN  [k \in 1..(hi - lo + 1) |-> s[lo + k - 1]]
IsNotebook(r) ==
  /\ Len(r) >= Len(NotebookSuffix)
  /\ \A k \in 1..Len(NotebookSuffix) :
       r[Len(r) - Len(NotebookSuffix) + k] = NotebookSuffix[k]
\* the k-th smallest member of a set of positions
Kth(S, k) == CHOOSE i \in S : Cardinality({j \in S : j <= i}) = k

\* C10: the result of the Change Detector is the sublist, in the order of
\* the input, of the whitespace-stripped input lines that end with '.ipynb':
\* nothing added, dropped, reordered or deduplicated; readme.md,
\* lesson1.ipynb, fig.png, lesson2.ipynb gives lesson1.ipynb, lesson2.ipynb.
C10_DetectSublist ==
  dpc \in {"open_out", "write_out", "done"} =>
     LET L == InputLines
         S == [i \in 1..Len(L) |-> Stripped(L[i])]
         Kept == {i \in 1..Len(L) : IsNotebook(S[i])}
     IN  /\ Len(changed_notebooks) = Cardinality(Kept)
         /\ \A k \in 1..Len(changed_notebooks) :
              changed_notebooks[k] = S[Kth(Kept, k)]
         /\ L = <<Readme_md \o <<"\n">>, Lesson1_ipynb \o <<"\n">>,
                  Fig_png \o <<"\n">>, Lesson2_ipynb \o <<"\n">>>> =>
              changed_notebooks = <<Lesson1_ipynb, Lesson2_ipynb>>

C10_Witness ==
  /\ dpc = "done"
  /\ InputLines = <<Padded_ipynb \o <<"\n">>, Backup_md \o <<"\n">>,
                    Lesson1_ipynb \o <<"\n">>, Padded_ipynb>>
  /\ changed_notebooks = <<A_ipynb, Lesson1_ipynb, A_ipynb>>

\* C11: changed_notebooks.txt is written only when the filtered sequence is
\* not empty: after the Change Detector has run with no line ending with
\* '.ipynb' there is no output file, created or left behind, and otherwise
\* the file holds exactly the filtered paths, one per line.
C11_NoOutputWhenEmpty ==
  dpc = "done" =>
     IF changed_notebooks = <<>>
       THEN ~changed_notebooks_txt.exists
       ELSE /\ changed_notebooks_txt.exists
            /\ changed_notebooks_txt.lines = changed_notebooks

\* C12: every occurrence of a notebook whose rebuild_notebook call returned
\* and whose try block completed is recorded as succeeded under its input
\* path: when the run finishes its path is a line of the success log, and
\* the success log has as many lines as total_notebooks_built counts, also
\* when the same path was given more than once and another occurrence failed.
C12_BuiltAreSucceeded ==
  pc = "done" =>
     /\ \A i \in 1..Len(outcomes) :
          outcomes[i] = "ok" => notebooks_to_rebuild[i] \in Range(succeeded)
     /\ Len(succeeded) = total_notebooks_built

\* ---------------------------------------- rebuild_notebook on the disk
\* A path is the tuple of its components, relative to the working directory.
NotebookPaths ==
  {<<"a.ipynb">>, <<".", "a.ipynb">>, <<"sub", "a.ipynb">>,
   <<"sub", "..", "a.ipynb">>, <<"tmp", "a.ipynb">>,
   <<".", "tmp", "a.ipynb">>, <<"tmp", "sub", "a.ipynb">>}

RECURSIVE Collapse(_, _)
Collapse(p, acc) ==
  IF p = <<>> THEN acc
  ELSE IF Head(p) = "." THEN Collapse(Tail(p), acc)
  ELSE IF Head(p) = ".." /\ acc # <<>> /\ acc[Len(acc)] # ".."
         THEN Collapse(Tail(p), SubSeq(acc, 1, Len(acc) - 1))
  ELSE Collapse(Tail(p), Append(acc, Head(p)))

\* op.normpath
normpath(p) == IF Collapse(p, <<>>) = <<>> THEN <<".">> ELSE Collapse(p, <<>>)
\* op.basename
basename(p) == <<p[Len(p)]>>
\* op.join
join(a, b) == a \o b

\* line 53 and line 61: paths['path_save_tmp_file']
PathSaveTmpFile(path) == join(<<"tmp">>, basename(normpath(path)))

\* the file a path names when it is opened from the working directory
Resolve(path) == normpath(path)
UnderTmp(loc) == loc[1] = "tmp"
Locations ==
  {Resolve(p) : p \in NotebookPaths} \cup
  {Resolve(PathSaveTmpFile(p)) : p \in NotebookPaths}

CondaDisplayNames == {"[conda env:ea-python] Python 3"}
Python3Versions == {"3.7.6"}
SourceNotebooks ==
  [display_name : CondaDisplayNames \cup {"Python 3"},
   language : {"python", "R"},
   version : Python3Versions \cup {"2.7.15"},
   name : {"conda-env-ea-python-py"},
   executed : {FALSE}]

\* lines 88-97
KernelNormalized(nb) ==
  IF nb.display_name \in CondaDisplayNames /\ nb.language = "python"
    THEN IF nb.version \in Python3Versions
           THEN [nb EXCEPT !.name = "python3", !.display_name = "Python 3"]
           ELSE [nb EXCEPT !.name = "python2", !.display_name = "Python 2"]
    ELSE nb

InitStage ==
  /\ RebuilderIdle
  /\ DetectIdle
  /\ notebook_path \in NotebookPaths
  /\ \E nb \in SourceNotebooks :
       /\ original = [exists |-> TRUE, nb |-> nb]
       /\ fs = [loc \in Locations |->
                  IF loc = Resolve(notebook_path) THEN original ELSE NoFile]
  /\ tmp_dir \in (IF UnderTmp(Resolve(notebook_path)) THEN {TRUE} ELSE BOOLEAN)
  /\ ntbk_tmp_path = <<>>
  /\ ntbk_json = NoNotebook
  /\ spc = "gen_paths"

\* lines 50-66 and 117-118
StageGeneratePaths ==
  /\ spc = "gen_paths"
  /\ tmp_dir' = TRUE
  /\ ntbk_tmp_path' = PathSaveTmpFile(notebook_path)
  /\ spc' = "read"
  /\ UNCHANGED <<notebook_path, fs, ntbk_json, original>>
  /\ UNCHANGED <<rvars, dvars>>

\* line 121
StageRead ==
  /\ spc = "read"
  /\ ntbk_json' = fs[Resolve(notebook_path)].nb
  /\ spc' = "normalize"
  /\ UNCHANGED <<notebook_path, fs, tmp_dir, ntbk_tmp_path, original>>
  /\ UNCHANGED <<rvars, dvars>>

\* lines 88-99 and 125: the kernel is normalized and nf.write stores the
\* notebook at ntbk_tmp_path
normalize_kernel_name ==
  /\ spc = "normalize"
  /\ ntbk_json' = KernelNormalized(ntbk_json)
  /\ fs' = [fs EXCEPT ![Resolve(ntbk_tmp_path)] =
                         [exists |-> TRUE, nb |-> ntbk_json']]
  /\ spc' = "execute"
  /\ UNCHANGED <<notebook_path, tmp_dir, ntbk_tmp_path, original>>
  /\ UNCHANGED <<rvars, dvars>>

\* lines 130-133: papermill executes ntbk_tmp_path in place; it returns, or
\* raises with or without having stored the executed cells
execute_notebook ==
  /\ spc = "execute"
  /\ \E ok \in BOOLEAN, stored \in BOOLEAN :
       /\ ok => stored
       /\ fs' = IF stored
                  THEN [fs EXCEPT ![Resolve(ntbk_tmp_path)].nb.executed = TRUE]
                  ELSE fs
  /\ spc' = "cleanup"
  /\ UNCHANGED <<notebook_path, tmp_dir, ntbk_tmp_path, ntbk_json, original>>
  /\ UNCHANGED <<rvars, dvars>>

\* lines 193-196: sh.rmtree removes ./tmp and everything below it
StageCleanup ==
  /\ spc = "cleanup"
  /\ fs' = [loc \in Locations |-> IF UnderTmp(loc) THEN NoFile ELSE fs[loc]]
  /\ tmp_dir' = FALSE
  /\ spc' = "done"
  /\ UNCHANGED <<notebook_path, ntbk_tmp_path, ntbk_json, original>>
  /\ UNCHANGED <<rvars, dvars>>

NextStage ==
  \/ StageGeneratePaths
  \/ StageRead
  \/ normalize_kernel_name
  \/ execute_notebook
  \/ StageCleanup

SpecStage == InitStage /\ [][NextStage]_vars

\* C13: for every input path the staged path names another file than the
\* input path, and the input notebook is the same after every step of the
\* run as before it, also for input paths inside the tmp directory.
C13_OriginalUnchanged ==
  /\ spc \notin {"idle", "gen_paths"} =>
       /\ ntbk_tmp_path # notebook_path
       /\ Resolve(ntbk_tmp_path) # Resolve(notebook_path)
  /\ spc # "idle" => fs[Resolve(notebook_path)] = original
====
